---- MODULE Spec2Model ----
(***************************************************************************)
(* Model of blauprint (src/src/lib.rs, src/src/waker.rs): a blueprint      *)
(* (an async computation using a Handle) is stepped by an Executor that    *)
(* is exposed to the consumer as an iterator of events.                    *)
(*                                                                         *)
(* The blueprint is a straight-line program over the Handle's two          *)
(* operations, each either awaited where it is called or called with the   *)
(* returned future dropped.  One action models one call of the consumer:   *)
(* Executor::next (with the whole poll of the blueprint inside it),        *)
(* Responder::provide, dropping a Responder, dropping the iterator.        *)
(* `log` is a history variable: it records, in program order, what         *)
(* happened inside each call.                                              *)
(***************************************************************************)
EXTENDS Integers, Sequences, FiniteSets

VARIABLES
    prog,      \* the blueprint given to run(): its Handle calls, in order
    pc,        \* the blueprint's position: index of its next Handle call
    aw,        \* the future the blueprint is suspended in (WantInput, Pause) or none
    x,         \* the blueprint's local `input`: the value of its last want_input().await
    inner,     \* the shared slot of Handle and Executor: Option<InnerEvent>
    holders,   \* the private slot of each want_input() call, in order of creation
    future,    \* Executor::future is Some
    status,    \* "running", "panicked" (a panic unwound the run) or "discarded"
    held,      \* the Responders the consumer holds, by request number
    last,      \* what the last call of next() returned
    pulls,     \* number of calls of next()
    log        \* history of deposits, resumptions, polls, yields, provides

vars == <<prog, pc, aw, x, inner, holders, future, status, held, last, pulls, log>>

----------------------------------------------------------------------------
(* Bounds *)

MaxLen == 3        \* number of Handle calls in a blueprint
MaxPulls == 5      \* number of calls of Executor::next in a run

(* Values *)

InputVals == {0, 42, 255}          \* values of type Input (u8) the consumer supplies
OutLit == <<"h", "i">>             \* an output literal of the blueprint (a String)
Ret == "alles gut"                 \* the blueprint's return value

None == [tag |-> "None"]
Some(v) == [tag |-> "Some", val |-> v]

InnerInput(k) == [tag |-> "Input", resp |-> k]
InnerOutput(o) == [tag |-> "Output", out |-> o]

EventInput(k) == [tag |-> "Input", resp |-> k]
EventOutput(o) == [tag |-> "Output", out |-> o]
EventReturn(r) == [tag |-> "Return", ret |-> r]

----------------------------------------------------------------------------
(* u8::to_string, as the test blueprint uses it *)

DigitChars == <<"0", "1", "2", "3", "4", "5", "6", "7", "8", "9">>

RECURSIVE to_string_reversed(_)
to_string_reversed(n) ==
    IF n < 10 THEN <<DigitChars[n + 1]>>
    ELSE <<DigitChars[(n % 10) + 1]>> \o to_string_reversed(n \div 10)

RECURSIVE to_string(_)
to_string(n) ==
    IF n < 10 THEN <<DigitChars[n + 1]>>
    ELSE Append(to_string(n \div 10), DigitChars[(n % 10) + 1])

----------------------------------------------------------------------------
(* Blueprints *)

\* "Waker": the blueprint awaits a future of its own that uses the Waker of the
\* Context it is polled with (clone, wake_by_ref, or wake on a Waker rebuilt
\* from its raw parts) and is then ready
Instrs == [op : {"WantAwait", "WantCall"}, arg : {"-"}]
            \cup [op : {"OutAwait", "OutCall"}, arg : {"lit", "x"}]
            \cup [op : {"Waker"}, arg : {"clone", "wake_by_ref", "wake"}]

\* `x` is bound by `let x = handle.want_input().await`: it is used only after one
WellFormed(p) ==
    \A i \in 1..Len(p) :
        p[i].arg = "x" => \E j \in 1..(i - 1) : p[j].op = "WantAwait"

Programs == {p \in UNION {[1..n -> Instrs] : n \in 0..MaxLen} : WellFormed(p)}

\* the blueprint consists of Handle calls only, each awaited where it is made
AllAwaited(p) == \A i \in 1..Len(p) : p[i].op \in {"WantAwait", "OutAwait"}

\* no Handle call is made and left unawaited
HandleCallsAwaited(p) == \A i \in 1..Len(p) : p[i].op \notin {"WantCall", "OutCall"}

TestBlueprint == <<[op |-> "WantAwait", arg |-> "-"], [op |-> "OutAwait", arg |-> "x"]>>

----------------------------------------------------------------------------
(* Cells *)

\* std Cell::set, reached through `self.inner.0.set(..)`: stores, checks nothing
CellSet(cell, value) == value

CellReplaceKeep(cell, value) == [cell |-> cell, out |-> cell]

\* std Cell::replace
CellReplace(cell, value) == [cell |-> value, out |-> cell]

SharedCellSetInverted(cell, value) == [cell |-> Some(value), ok |-> cell # None]

SharedCellSetDiscard(cell, value) == [cell |-> cell, ok |-> cell = None]

\* SharedCell::set: replace, then assert the old content was None
SharedCellSet(cell, value) == [cell |-> Some(value), ok |-> cell = None]

\* SharedCell::take
SharedCellTake(cell) == CellReplace(cell, None)

----------------------------------------------------------------------------
(* Futures of the Handle *)

NoAwait == [kind |-> "none", holder |-> 0, flag |-> FALSE]

PausePollEager(flag) == [ready |-> TRUE, flag |-> flag]

PausePollStuck(flag) == [ready |-> FALSE, flag |-> TRUE]

\* Pause::poll
PausePoll(flag) ==
    IF flag THEN [ready |-> TRUE, flag |-> flag]
    ELSE [ready |-> FALSE, flag |-> TRUE]

WantInputPollDefault(holder) ==
    LET t == SharedCellTake(holder) IN
    IF t.out.tag = "Some" THEN [ready |-> TRUE, val |-> t.out.val, cell |-> t.cell]
    ELSE [ready |-> TRUE, val |-> 0, cell |-> t.cell]

\* WantInput::poll
WantInputPoll(holder) ==
    LET t == SharedCellTake(holder) IN
    IF t.out.tag = "Some" THEN [ready |-> TRUE, val |-> t.out.val, cell |-> t.cell]
    ELSE [ready |-> FALSE, val |-> 0, cell |-> t.cell]

\* Handle::want_input: fresh holder, Responder on it into the shared slot
HandleWantInput(b, by) ==
    LET k == Len(b.holders) + 1 IN
    [b EXCEPT !.holders = Append(@, None),
              !.inner = CellSet(@, Some(InnerInput(k))),
              !.log = Append(@, [op |-> "deposit", ev |-> InnerInput(k),
                                 occupied |-> b.inner # None, by |-> by]),
              !.aw = [kind |-> "WantInput", holder |-> k, flag |-> FALSE]]

\* Handle::provide_output
HandleProvideOutput(b, output, by) ==
    [b EXCEPT !.inner = CellSet(@, Some(InnerOutput(output))),
              !.log = Append(@, [op |-> "deposit", ev |-> InnerOutput(output),
                                 occupied |-> b.inner # None, by |-> by]),
              !.aw = [kind |-> "Pause", holder |-> 0, flag |-> FALSE]]

OutputOf(b, arg) == IF arg = "x" THEN to_string(b.x) ELSE OutLit

----------------------------------------------------------------------------
(* The Waker the Executor polls with (waker.rs) *)

Snapshot(b) == [pc |-> b.pc, aw |-> b.aw, x |-> b.x, inner |-> b.inner, holders |-> b.holders]

\* clone: panics
clone(b) ==
    [b EXCEPT !.res = "Panic",
              !.log = Append(@, [op |-> "panic", msg |-> "Blueprint is not an async runtime."])]

wake_panics(b) == clone(b)

\* wake
wake(b) == b

\* wake_by_ref
wake_by_ref(b) == b

\* drop
drop(b) == b

\* a use of the Waker by the blueprint, recorded with the state around it
UseWaker(b, fn) ==
    LET a == CASE fn = "clone" -> clone(b)
               [] fn = "wake" -> wake(b)
               [] fn = "wake_by_ref" -> wake_by_ref(b)
        e == [op |-> "waker", fn |-> fn, before |-> Snapshot(b), after |-> Snapshot(a)]
    IN [a EXCEPT !.log = Append(b.log, e) \o SubSeq(a.log, Len(b.log) + 1, Len(a.log))]

----------------------------------------------------------------------------
(* One poll of the blueprint's future: runs it to its next Pending or to Ready *)

RECURSIVE PollBlueprint(_)
PollBlueprint(b) ==
    IF b.aw.kind = "WantInput" THEN
        LET r == WantInputPoll(b.holders[b.aw.holder]) IN
        IF r.ready
        THEN PollBlueprint([b EXCEPT !.holders[b.aw.holder] = r.cell,
                                     !.x = r.val,
                                     !.aw = NoAwait,
                                     !.pc = @ + 1,
                                     !.log = Append(@, [op |-> "resume", req |-> b.aw.holder,
                                                        val |-> r.val])])
        ELSE [b EXCEPT !.holders[b.aw.holder] = r.cell, !.res = "Pending"]
    ELSE IF b.aw.kind = "Pause" THEN
        LET r == PausePoll(b.aw.flag) IN
        IF r.ready
        THEN PollBlueprint([b EXCEPT !.aw = NoAwait, !.pc = @ + 1])
        ELSE [b EXCEPT !.aw.flag = r.flag, !.res = "Pending"]
    ELSE IF b.pc > Len(prog) THEN
        [b EXCEPT !.res = "Ready", !.log = Append(@, [op |-> "return"])]
    ELSE
        LET i == prog[b.pc] IN
        CASE i.op = "WantAwait" -> PollBlueprint(HandleWantInput(b, i.op))
          [] i.op = "OutAwait" -> PollBlueprint(HandleProvideOutput(b, OutputOf(b, i.arg), i.op))
          [] i.op = "WantCall" ->
                PollBlueprint([HandleWantInput(b, i.op) EXCEPT !.aw = NoAwait, !.pc = @ + 1])
          [] i.op = "OutCall" ->
                PollBlueprint([HandleProvideOutput(b, OutputOf(b, i.arg), i.op)
                                  EXCEPT !.aw = NoAwait, !.pc = @ + 1])
          [] i.op = "Waker" ->
                LET a == UseWaker(b, i.arg) IN
                IF a.res = "Panic" THEN a
                ELSE PollBlueprint([a EXCEPT !.pc = @ + 1])

----------------------------------------------------------------------------
(* Executor *)

\* InnerEvent::into
IntoEvent(inner_event) ==
    IF inner_event.tag = "Input" THEN EventInput(inner_event.resp)
    ELSE EventOutput(inner_event.out)

FutureAfterReadyKept == TRUE

\* `self.future = None` on Poll::Ready
FutureAfterReady == FALSE

\* `.expect("inner event")`
ExpectInnerEvent(taken) == taken # None

\* run: the state after construction
Init ==
    /\ prog \in Programs
    /\ pc = 1
    /\ aw = NoAwait
    /\ x = 0
    /\ inner = None
    /\ holders = <<>>
    /\ future = TRUE
    /\ status = "running"
    /\ held = {}
    /\ last = [tag |-> "NotPulled"]
    /\ pulls = 0
    /\ log = <<>>

\* the suspended request of the blueprint has no value yet
Starved == aw.kind = "WantInput" /\ holders[aw.holder] = None

\* Executor::next
ExecutorNext ==
    /\ status = "running"
    /\ pulls < MaxPulls
    /\ pulls' = pulls + 1
    /\ UNCHANGED prog
    /\ IF ~future
       THEN /\ last' = None
            /\ log' = Append(log, [op |-> "pull", starved |-> FALSE]) \o <<[op |-> "none"]>>
            /\ UNCHANGED <<pc, aw, x, inner, holders, future, status, held>>
       ELSE LET b == PollBlueprint([pc |-> pc, aw |-> aw, x |-> x, inner |-> inner,
                                    holders |-> holders, res |-> "",
                                    log |-> Append(log, [op |-> "pull", starved |-> Starved])])
            IN
            /\ pc' = b.pc /\ aw' = b.aw /\ x' = b.x /\ holders' = b.holders
            /\ IF b.res = "Panic"
               THEN /\ status' = "panicked"
                    /\ log' = b.log
                    /\ inner' = b.inner
                    /\ UNCHANGED <<future, last, held>>
               ELSE IF b.res = "Ready"
               THEN /\ future' = FutureAfterReady
                    /\ last' = Some(EventReturn(Ret))
                    /\ log' = Append(b.log, [op |-> "yield", item |-> EventReturn(Ret)])
                    /\ inner' = b.inner
                    /\ UNCHANGED <<status, held>>
               ELSE LET t == CellReplace(b.inner, None)
                        plog == Append(b.log, [op |-> "pending", slot |-> b.inner])
                    IN
                    /\ inner' = t.cell
                    /\ UNCHANGED future
                    /\ IF ExpectInnerEvent(t.out)
                       THEN LET e == IntoEvent(t.out.val) IN
                            /\ last' = Some(e)
                            /\ log' = Append(plog, [op |-> "yield", item |-> e])
                            /\ held' = IF e.tag = "Input" THEN held \cup {e.resp} ELSE held
                            /\ UNCHANGED status
                       ELSE /\ status' = "panicked"
                            /\ log' = Append(plog, [op |-> "panic", msg |-> "inner event"])
                            /\ UNCHANGED <<last, held>>

ResponderReusable(h, k) == h

\* Responder::provide takes `self` by value: the Responder is gone after the call
ResponderConsumed(h, k) == h \ {k}

\* Responder::provide
ResponderProvide ==
    /\ status # "panicked"
    /\ \E k \in held, data \in InputVals :
        LET s == SharedCellSet(holders[k], data) IN
        /\ held' = ResponderConsumed(held, k)
        /\ holders' = [holders EXCEPT ![k] = s.cell]
        /\ IF s.ok
           THEN /\ log' = Append(log, [op |-> "provide", req |-> k, val |-> data])
                /\ UNCHANGED status
           ELSE /\ log' = Append(log, [op |-> "panic", msg |-> "SharedCell was already set"])
                /\ status' = "panicked"
    /\ UNCHANGED <<prog, pc, aw, x, inner, future, last, pulls>>

\* the consumer drops a Responder without using it
ResponderDrop ==
    /\ status # "panicked"
    /\ \E k \in held :
        /\ held' = held \ {k}
        /\ log' = Append(log, [op |-> "drop", req |-> k])
    /\ UNCHANGED <<prog, pc, aw, x, inner, holders, future, status, last, pulls>>

\* the consumer drops the iterator (the Executor and the future it owns)
ExecutorDrop ==
    /\ status = "running"
    /\ LET b == drop([pc |-> pc, aw |-> aw, x |-> x, inner |-> inner,
                      holders |-> holders, res |-> "",
                      log |-> Append(log, [op |-> "discard"])])
       IN /\ pc' = b.pc /\ aw' = b.aw /\ x' = b.x /\ inner' = b.inner
          /\ holders' = b.holders /\ log' = b.log
          /\ status' = IF b.res = "Panic" THEN "panicked" ELSE "discarded"
    /\ UNCHANGED <<prog, future, held, last, pulls>>

Next == ExecutorNext \/ ResponderProvide \/ ResponderDrop \/ ExecutorDrop

Spec == Init /\ [][Next]_vars

\* the consumer of test::test: a `for` loop over the events that uses the
\* Responder of each Input event before it pulls again, and keeps pulling
LoopPull == held = {} /\ ExecutorNext

LoopNext == LoopPull \/ ResponderProvide

\* run() on a blueprint like test::test_blauprint, every Handle call awaited
LoopInit == Init /\ AllAwaited(prog)

\* the loop does not stop by itself: whichever of its two steps is due is taken
LoopSpec == LoopInit /\ [][LoopNext]_vars /\ WF_vars(LoopNext)

----------------------------------------------------------------------------
TypeOK ==
    /\ prog \in Programs
    /\ pc \in 1..(Len(prog) + 1)
    /\ status \in {"running", "panicked", "discarded"}
    /\ future \in BOOLEAN
    /\ pulls \in 0..MaxPulls
    /\ held \subseteq 1..Len(holders)

----------------------------------------------------------------------------
(* Reading the history *)

LogIdx == 1..Len(log)

IsBlueprintStep(e) == e.op \in {"deposit", "resume", "return"}
IsPullResult(e) == e.op \in {"yield", "none", "panic"}
IsDeposit(e) == e.op = "deposit"
IsYieldIO(e) == e.op = "yield" /\ e.item.tag # "Return"

\* what the pulls gave back, in order
PullResults == SelectSeq(log, IsPullResult)

\* the suspension reasons the blueprint deposited, as the events they stand for
Deposited == LET d == SelectSeq(log, IsDeposit) IN [i \in 1..Len(d) |-> IntoEvent(d[i].ev)]

\* the Input and Output events yielded
YieldedIO == LET y == SelectSeq(log, IsYieldIO) IN [i \in 1..Len(y) |-> y[i].item]

\* the consumer never pulled while the blueprint's pending request had no value
Disciplined == \A i \in LogIdx : log[i].op = "pull" => ~log[i].starved

ReturnedBefore(i) ==
    \E j \in 1..(i - 1) : log[j].op = "yield" /\ log[j].item.tag = "Return"

\* entries of the pull that starts at entry i
PullSegment(i) == {j \in LogIdx : j > i /\ \A n \in (i + 1)..j : log[n].op # "pull"}

----------------------------------------------------------------------------
(* C1 *)

\* C1: whenever the blueprint resumes from its k-th want_input() with a value,
\* that value is the one the consumer gave to the Responder of that k-th
\* request (the only value ever given to it), and the pull that follows a
\* provide(v) starts by resuming that request with v.
C1_ResumesWithProvided ==
    /\ \A i \in LogIdx : log[i].op = "resume" =>
         \E j \in 1..(i - 1) :
            /\ log[j].op = "provide" /\ log[j].req = log[i].req /\ log[j].val = log[i].val
            /\ \A n \in LogIdx : (log[n].op = "provide" /\ log[n].req = log[i].req) => n = j
    /\ \A j \in LogIdx : (log[j].op = "provide" /\ j < Len(log) /\ log[j + 1].op = "pull") =>
         /\ j + 2 <= Len(log)
         /\ log[j + 2] = [op |-> "resume", req |-> log[j].req, val |-> log[j].val]

\* two requests were answered with different values and each was observed
C1_Witness ==
    \E i, j \in LogIdx :
        /\ log[i].op = "resume" /\ log[i].req = 1 /\ log[i].val = 42
        /\ log[j].op = "resume" /\ log[j].req = 2 /\ log[j].val = 255

----------------------------------------------------------------------------
(* C2 *)

\* C2: once a pull has yielded Return the Executor holds no future, and every
\* later pull yields None without any step of the blueprint: no entry after
\* the Return is a blueprint step or a yield, so Return is yielded at most
\* once and is the last item.
C2_CompletedAbsorbing ==
    \A i \in LogIdx : (log[i].op = "yield" /\ log[i].item.tag = "Return") =>
        /\ ~future
        /\ \A j \in (i + 1)..Len(log) :
             /\ ~IsBlueprintStep(log[j])
             /\ log[j].op \notin {"yield", "pending", "panic"}
             /\ log[j].op = "pull" => (j < Len(log) /\ log[j + 1].op = "none")
        /\ (log[Len(log)].op = "none" => last = None)

\* a pull was made after Return
C2_Witness ==
    \E i \in LogIdx :
        /\ log[i].op = "yield" /\ log[i].item.tag = "Return"
        /\ Len(prog) > 0
        /\ \E j \in (i + 1)..Len(log) : log[j].op = "none"

----------------------------------------------------------------------------
(* C3 *)

OneEventPerPull ==
    /\ status # "panicked"
    /\ Len(PullResults) = pulls
    /\ \A i \in LogIdx : log[i].op = "pull" =>
         /\ Cardinality({j \in PullSegment(i) : IsPullResult(log[j])}) = 1
         /\ \A j \in PullSegment(i) : IsPullResult(log[j]) =>
              log[j].op = (IF ReturnedBefore(i) THEN "none" ELSE "yield")

\* C3 (as claimed): for any blueprint over the Handle's operations and a
\* consumer that fulfils each Responder before pulling again, each pull before
\* completion yields one event, each pull after it none, and the Input/Output
\* events yielded are the deposited reasons in order.
C3_Claim ==
    Disciplined => (OneEventPerPull /\ (status = "running" => YieldedIO = Deposited))

\* C3 (amended): the same, for blueprints that consist of Handle calls only
\* and await every one where they make it.
C3_OrderedEvents ==
    (AllAwaited(prog) /\ Disciplined) =>
        (OneEventPerPull /\ (status = "running" => YieldedIO = Deposited))

\* a three-call blueprint of both kinds of call ran to completion and beyond
C3_Witness ==
    /\ AllAwaited(prog) /\ Disciplined
    /\ Len(prog) = 3
    /\ \E i, j \in 1..3 : prog[i].op = "WantAwait" /\ prog[j].op = "OutAwait"
    /\ Len(YieldedIO) = 3
    /\ ~future
    /\ last = None

----------------------------------------------------------------------------
(* C4 *)

\* C4 (as claimed): a want_input() or provide_output() made while the shared
\* slot still holds a reason aborts: the deposit is the last thing that
\* happens and the run has panicked.
C4_Claim ==
    \A i \in LogIdx : (log[i].op = "deposit" /\ log[i].occupied) =>
        (status = "panicked" /\ i < Len(log) /\ log[i + 1].op = "panic")

----------------------------------------------------------------------------
(* C5 *)

\* C5 (as claimed): a pull made while the delivered Responder is unfulfilled
\* leaves the blueprint suspended where it is and yields no item, without a
\* panic.
C5_Claim ==
    [][(Starved /\ future /\ pulls' = pulls + 1) =>
         (status' = "running" /\ last' = None /\ pc' = pc /\ aw' = aw)]_vars

----------------------------------------------------------------------------
(* C6 *)

\* C6: in every pull whose poll of the blueprint returns Pending, an empty
\* shared slot makes the pull panic ("inner event") with nothing yielded; a
\* slot holding a reason is emptied and the pull yields Event::Input for
\* RequestInput and Event::Output for EmitOutput.
C6_PendingDrainsSlot ==
    [][\A i \in (Len(log) + 1)..Len(log') : log'[i].op = "pending" =>
         IF log'[i].slot = None
         THEN /\ i + 1 = Len(log') /\ log'[i + 1].op = "panic"
              /\ status' = "panicked"
              /\ last' = last
         ELSE /\ i + 1 = Len(log') /\ log'[i + 1].op = "yield"
              /\ log'[i + 1].item.tag = log'[i].slot.val.tag
              /\ (log'[i].slot.val.tag = "Input" =>
                     log'[i + 1].item = EventInput(log'[i].slot.val.resp))
              /\ (log'[i].slot.val.tag = "Output" =>
                     log'[i + 1].item = EventOutput(log'[i].slot.val.out))
              /\ last' = Some(log'[i + 1].item)
              /\ inner' = None
              /\ status' = "running"]_vars

\* all three cases have happened: Pending on an empty slot, an Input yielded,
\* an Output yielded
C6_Witness ==
    /\ status = "panicked"
    /\ \E i \in LogIdx : log[i].op = "pending" /\ log[i].slot = None
    /\ \E i \in LogIdx : log[i].op = "yield" /\ log[i].item.tag = "Input"
    /\ \E i \in LogIdx : log[i].op = "yield" /\ log[i].item.tag = "Output"

----------------------------------------------------------------------------
(* C7 *)

ProvidedTo(k) == {log[i].val : i \in {j \in LogIdx : log[j].op = "provide" /\ log[j].req = k}}

\* C7: for the test's blueprint and a consumer that supplies v on the Input
\* event, the pulls give Input, Output(v.to_string()), Return("alles gut") and
\* then None; v = 42 gives Output("42").
C7_TestScenario ==
    (prog = TestBlueprint /\ Disciplined) =>
        LET r == PullResults IN
        /\ Len(r) = pulls
        /\ Len(r) >= 1 => r[1] = [op |-> "yield", item |-> EventInput(1)]
        /\ Len(r) >= 2 =>
             /\ r[2].op = "yield" /\ r[2].item.tag = "Output"
             /\ \A v \in ProvidedTo(1) : r[2].item.out = to_string(v)
             /\ 42 \in ProvidedTo(1) => r[2].item.out = <<"4", "2">>
             /\ 255 \in ProvidedTo(1) => r[2].item.out = <<"2", "5", "5">>
        /\ Len(r) >= 3 => r[3] = [op |-> "yield", item |-> EventReturn("alles gut")]
        /\ \A n \in 4..Len(r) : r[n].op = "none"

\* the test's run: 42 supplied, four pulls made
C7_Witness ==
    /\ prog = TestBlueprint /\ Disciplined
    /\ ProvidedTo(1) = {42}
    /\ pulls >= 4
    /\ last = None

----------------------------------------------------------------------------
(* C8 *)

\* C8: a blueprint with no want_input() and no provide_output() gives
\* Return(result) on the first pull and None on every later pull.
C8_NoSuspension ==
    Len(prog) = 0 =>
        LET r == PullResults IN
        /\ Len(r) = pulls
        /\ Len(r) >= 1 => r[1] = [op |-> "yield", item |-> EventReturn(Ret)]
        /\ \A n \in 2..Len(r) : r[n].op = "none"
        /\ pulls = 1 => last = Some(EventReturn(Ret))
        /\ pulls >= 2 => last = None

\* the empty blueprint was pulled twice
C8_Witness == Len(prog) = 0 /\ pulls = 2 /\ last = None

----------------------------------------------------------------------------
(* C9 *)

EmittedBeforeNextStep(i) ==
    \E j \in (i + 1)..Len(log) :
        /\ log[j] = [op |-> "yield", item |-> EventOutput(log[i].ev.out)]
        /\ \A n \in (i + 1)..(j - 1) : ~IsBlueprintStep(log[n])

\* C9 (as claimed): after any provide_output(value) has deposited its value
\* the blueprint takes no step until Output(value) has been yielded.
C9_Claim ==
    \A i \in LogIdx : (log[i].op = "deposit" /\ log[i].ev.tag = "Output") =>
        EmittedBeforeNextStep(i)

\* C9 (amended): the same, for a provide_output(value) that the blueprint
\* awaits where it calls it.
C9_AwaitedOutputEmittedFirst ==
    \A i \in LogIdx :
        (log[i].op = "deposit" /\ log[i].ev.tag = "Output" /\ log[i].by = "OutAwait") =>
            EmittedBeforeNextStep(i)

\* an awaited output was emitted and the blueprint went on to a later step
C9_Witness ==
    \E i \in LogIdx :
        /\ log[i].op = "deposit" /\ log[i].ev.tag = "Output" /\ log[i].by = "OutAwait"
        /\ \E j \in (i + 1)..Len(log) : log[j].op = "deposit"
        /\ \E j \in (i + 1)..Len(log) : log[j].op = "return"

----------------------------------------------------------------------------
(* C10 *)

\* C10: once the iterator is dropped nothing panics and nothing moves: no
\* event is produced, the blueprint is not stepped, and providing on (or
\* dropping) a Responder still held changes neither.
C10_DiscardIsQuiet ==
    [][status = "discarded" =>
         /\ status' = "discarded"
         /\ pc' = pc /\ aw' = aw /\ x' = x /\ inner' = inner
         /\ pulls' = pulls /\ last' = last
         /\ log'[Len(log')].op \in {"provide", "drop"}]_vars

\* the iterator was dropped right after an Input event, and the Responder
\* was used afterwards
C10_Witness ==
    /\ status = "discarded"
    /\ \E i \in LogIdx :
         /\ log[i].op = "discard"
         /\ i > 1 /\ log[i - 1].op = "yield" /\ log[i - 1].item.tag = "Input"
         /\ i < Len(log) /\ log[i + 1].op = "provide"

----------------------------------------------------------------------------
(* C11 *)

\* C11: every private per-request slot receives at most one value and gives
\* it up at most once, and no provide ever finds its slot already set.
C11_ResponderSingleUse ==
    /\ \A i, j \in LogIdx :
          (log[i].op = "provide" /\ log[j].op = "provide" /\ log[i].req = log[j].req) => i = j
    /\ \A i, j \in LogIdx :
          (log[i].op = "resume" /\ log[j].op = "resume" /\ log[i].req = log[j].req) => i = j
    /\ \A i \in LogIdx :
          log[i].op = "panic" => log[i].msg # "SharedCell was already set"
    /\ \A k \in held :
          /\ holders[k] = None
          /\ \A i \in LogIdx : log[i].op = "provide" => log[i].req # k

\* two Responders were each used once and both values were taken
C11_Witness ==
    /\ \E i, j \in LogIdx : log[i].op = "provide" /\ log[i].req = 1
                              /\ log[j].op = "provide" /\ log[j].req = 2
    /\ \E i, j \in LogIdx : log[i].op = "resume" /\ log[i].req = 1
                              /\ log[j].op = "resume" /\ log[j].req = 2
    /\ held = {}

----------------------------------------------------------------------------
(* C12 *)

\* C12: a step of the blueprint that clones the Waker it is polled with makes
\* the pull panic there ("Blueprint is not an async runtime."), nothing being
\* yielded; wake and wake_by_ref leave the blueprint, the slots and the
\* Executor as they were, and so does the drop of the Waker with the Executor.
C12_WakerCloneIsFatal ==
    [][/\ \A i \in (Len(log) + 1)..Len(log') : log'[i].op = "waker" =>
            IF log'[i].fn = "clone"
            THEN /\ i + 1 = Len(log')
                 /\ log'[i + 1] = [op |-> "panic", msg |-> "Blueprint is not an async runtime."]
                 /\ status' = "panicked"
                 /\ last' = last /\ future' = future /\ held' = held
            ELSE /\ log'[i].after = log'[i].before
                 /\ i < Len(log') /\ log'[i + 1].op # "panic"
       /\ log'[Len(log')].op = "discard" =>
            /\ status' = "discarded"
            /\ pc' = pc /\ aw' = aw /\ x' = x /\ inner' = inner /\ holders' = holders
            /\ future' = future /\ last' = last /\ held' = held]_vars

\* a blueprint used wake_by_ref and wake and went on, then cloned the Waker
C12_Witness ==
    /\ status = "panicked"
    /\ \E i, j, k \in LogIdx :
         /\ i < j /\ j < k
         /\ log[i].op = "waker" /\ log[j].op = "waker" /\ log[k].op = "waker"
         /\ {log[i].fn, log[j].fn} = {"wake", "wake_by_ref"}
         /\ log[k].fn = "clone"

----------------------------------------------------------------------------
(* C13 *)

\* C13: the pull that reaches an awaited provide_output(value) leaves the
\* blueprint suspended in a Pause that has been polled once and yields
\* Output(value); the next pull, whatever the consumer did in between, takes
\* the blueprint past that provide_output.
C13_PauseOnePull ==
    [][/\ (aw'.kind = "Pause" /\ pulls' = pulls + 1) =>
            /\ aw'.flag
            /\ status' = "running"
            /\ prog[pc'].op = "OutAwait"
            /\ last' = Some(EventOutput(OutputOf([x |-> x'], prog[pc'].arg)))
            /\ log'[Len(log')] = [op |-> "yield", item |-> last'.val]
       /\ (aw.kind = "Pause" /\ pulls' = pulls + 1) => pc' > pc]_vars

\* two outputs in a row: the second pull went past the first with no help
\* from the consumer and stopped in the second
C13_Witness ==
    /\ Len(prog) >= 2
    /\ prog[1].op = "OutAwait" /\ prog[2].op = "OutAwait"
    /\ pulls = 2 /\ pc = 2 /\ aw.kind = "Pause"
    /\ \A i \in LogIdx : log[i].op # "provide"

----------------------------------------------------------------------------
(* C14 *)

\* C14: provide(v) on the Responder of request k turns that request's private
\* slot from empty to v and changes nothing else: not the blueprint's
\* position or local state, not the shared slot, not the other private slots,
\* not the Executor; the blueprint observes v only in a later pull.
C14_ProvideFrame ==
    [][log'[Len(log')].op = "provide" =>
         LET k == log'[Len(log')].req
             v == log'[Len(log')].val
         IN /\ holders[k] = None
            /\ holders' = [holders EXCEPT ![k] = Some(v)]
            /\ pc' = pc /\ aw' = aw /\ x' = x
            /\ inner' = inner
            /\ future' = future /\ status' = status
            /\ last' = last /\ pulls' = pulls
            /\ \A i \in LogIdx : log'[i] = log[i]
            /\ \A i \in 1..Len(log') : log'[i].op = "resume" => log'[i].req # k]_vars

\* a value was provided while the blueprint waits for it and no pull has
\* been made since: the blueprint is where it was
C14_Witness ==
    /\ Len(log) > 0 /\ log[Len(log)].op = "provide"
    /\ status = "running"
    /\ aw.kind = "WantInput" /\ aw.holder = log[Len(log)].req
    /\ holders[aw.holder] = Some(42)
    /\ x # 42

----------------------------------------------------------------------------
(* C15 *)

\* C15: under the loop consumer, a blueprint that awaits n Handle calls and
\* returns is completed eventually, by its (n+1)-th pull exactly: the first n
\* pulls yield its n Input/Output events and pull n+1 yields Return.
C15_CompletesAfterNPlusOne ==
    <>(AllAwaited(prog) =>
         /\ ~future
         /\ Len(YieldedIO) = Len(prog)
         /\ Len(PullResults) >= Len(prog) + 1
         /\ \A n \in 1..Len(prog) : PullResults[n].op = "yield"
         /\ PullResults[Len(prog) + 1] = [op |-> "yield", item |-> EventReturn(Ret)])

\* a blueprint of three awaited calls, requests among them, has completed
C15_Witness ==
    /\ AllAwaited(prog) /\ Len(prog) = 3
    /\ \E i \in 1..3 : prog[i].op = "WantAwait"
    /\ ~future /\ pulls = 4
    /\ last = Some(EventReturn(Ret))

----------------------------------------------------------------------------
(* C16 *)

\* C16: for a blueprint that awaits each Handle call before making another,
\* the shared slot is empty whenever control is with the consumer (before the
\* first pull, between pulls, after Return), and no deposit of the blueprint
\* has found it occupied.
C16_SlotEmptyBetweenPulls ==
    HandleCallsAwaited(prog) =>
        /\ inner = None
        /\ \A i \in LogIdx : log[i].op = "deposit" => ~log[i].occupied

\* three reasons were deposited and drained, pull after pull, up to Return
C16_Witness ==
    /\ HandleCallsAwaited(prog)
    /\ Cardinality({i \in LogIdx : log[i].op = "deposit"}) = 3
    /\ \E i, j \in LogIdx : log[i].op = "deposit" /\ log[j].op = "deposit"
                              /\ log[i].ev.tag = "Input" /\ log[j].ev.tag = "Output"
    /\ ~future
    /\ inner = None

====
